---- MODULE Spec2Model ----
(***************************************************************************)
(* tagheap: an interface-free heap API over a slice of pointers to struct, *)
(* ordered by the struct field tagged `<key>:"min"` or `<key>:"max"`, with *)
(* an optional `<key>:"index"` field maintained for Remove.                *)
(*                                                                         *)
(* The model follows the revision of the package whose New takes the tag   *)
(* key (namespace); Less, Swap, Push and Pop of the unexported tagHeap are *)
(* the same text in both revisions present in the sources.  The functions  *)
(* of container/heap (Init, Push, Pop, Remove, up, down) are modelled at   *)
(* the places the package calls them, with the standard library's fixed    *)
(* algorithm.                                                              *)
(*                                                                         *)
(* Go slices are indexed from 0, TLA+ sequences from 1: a Go index i is    *)
(* the sequence position i + 1 throughout.                                 *)
(***************************************************************************)
EXTENDS Integers, Sequences, FiniteSets, TLC

\* ------------------------------------------------------------- bounds
\* Number of record handles (pointers to struct) the caller owns.
NRec == 4
\* Length of the full initial slice that the caller only drains.
NDeep == 6
\* Key values are 1..MaxKey.
MaxKey == 3
\* Longest initial slice handed to New in the operational specification.
MaxInit == 2
\* Most fields of a struct type in the construction specification.
MaxFields == 3
\* Number of records each of the two callers owns where two containers run
\* side by side.
NOwn == 3

Recs == 1..NRec
Keys == 1..MaxKey
\* The nil interface value (what tagHeap.Pop returns on an empty slice).
Nil == 0

\* ------------------------------------------------- struct types and tags
\* The tag keys (namespaces) used by the tests.
Namespaces == {"heap", "pq"}
\* What sf.Tag.Get(key) can yield: absent, the three recognised values, and
\* an unrecognised one.
TagVals == {"", "min", "max", "index", "bogus"}
\* reflect.Kind of a field type, one or two per class the constructor tells
\* apart.
Kinds == {"Bool", "Int", "Int8", "Uint", "Uintptr", "Float64", "String"}

\* A struct field as reflect.StructField shows it: its tag value under each
\* key, whether it is exported (PkgPath = ""), and the kind of its type.
Field(heapTag, pqTag, exported, kind) ==
    [tag |-> [ns \in Namespaces |-> IF ns = "heap" THEN heapTag ELSE pqTag],
     exported |-> exported, kind |-> kind]

\* type s of ExampleNew / ExampleTagHeap_Remove: N int `heap:"min"`,
\* X int `heap:"index"`.
ExampleS == << Field("min", "", TRUE, "Int"), Field("index", "", TRUE, "Int") >>
\* type s of TestSingle: vert string, Tent int `pq:"max"`.
TestSingleS == << Field("", "", FALSE, "String"), Field("", "max", TRUE, "Int") >>
\* type s of TestMultiple: Tent int `pq:"max"`, N int `heap:"min"`,
\* X int `heap:"index" pq:"index"`.
TestMultipleS ==
    << Field("", "max", TRUE, "Int"), Field("min", "", TRUE, "Int"),
       Field("index", "index", TRUE, "Int") >>

\* The shapes of New's argument ps, as the constructor's chain of Kind tests
\* tells them apart.
Shapes == {"nil", "nonptr", "ptr", "ptrslice", "ptrsliceptr", "ok"}

\* ------------------------------------------------------------ constructor
IsIntKind(k) == k \in {"Int", "Int8"}
IsUintKind(k) == k \in {"Uint"}
IsFloatKind(k) == k \in {"Float64"}

\* The comparator chosen for a key field of kind k ("" when none applies).
LessFor(k) ==
    CASE k = "String" -> "lessString"
      [] IsIntKind(k) -> "lessInt"
      [] IsUintKind(k) -> "lessUint"
      [] IsFloatKind(k) -> "lessFloat"
      [] OTHER -> ""

\* The descriptor before the scan.
Blank ==
    [err |-> "", minHeap |-> FALSE, keyFieldIndex |-> -1,
     indexFieldIndex |-> -1, less |-> ""]

\* Faulty variant of ScanField: a second key field is accepted and replaces the first.
ScanFieldLastKeyWins(key, st, i, d) ==
    LET sf == st[i + 1]
        tv == sf.tag[key]
    IN  CASE tv = "" -> d
          [] tv \in {"min", "max"} ->
                IF ~sf.exported
                THEN [d EXCEPT !.err = "key field must be exported"]
                ELSE IF LessFor(sf.kind) = ""
                THEN [d EXCEPT !.err = "key field must be a string, integer, or floating point type"]
                ELSE [d EXCEPT !.less = LessFor(sf.kind),
                               !.keyFieldIndex = i,
                               !.minHeap = (tv = "min")]
          [] tv = "index" ->
                IF ~sf.exported
                THEN [d EXCEPT !.err = "index field must be exported"]
                ELSE IF d.indexFieldIndex >= 0
                THEN [d EXCEPT !.err = "struct tags specify multiple indexes"]
                ELSE IF sf.kind # "Int"
                THEN [d EXCEPT !.err = "index field must have type int"]
                ELSE [d EXCEPT !.indexFieldIndex = i]
          [] OTHER -> [d EXCEPT !.err = "invalid struct tag"]

\* One iteration of the field loop, on field number i (from 0) of st, with d
\* the descriptor so far; an error ends the scan.
ScanField(key, st, i, d) ==
    LET sf == st[i + 1]
        tv == sf.tag[key]
    IN  CASE tv = "" -> d
          [] tv \in {"min", "max"} ->
                IF ~sf.exported
                THEN [d EXCEPT !.err = "key field must be exported"]
                ELSE IF d.keyFieldIndex >= 0
                THEN [d EXCEPT !.err = "struct tags specify multiple keys."]
                ELSE IF LessFor(sf.kind) = ""
                THEN [d EXCEPT !.err = "key field must be a string, integer, or floating point type"]
                ELSE [d EXCEPT !.less = LessFor(sf.kind),
                               !.keyFieldIndex = i,
                               !.minHeap = (tv = "min")]
          [] tv = "index" ->
                IF ~sf.exported
                THEN [d EXCEPT !.err = "index field must be exported"]
                ELSE IF d.indexFieldIndex >= 0
                THEN [d EXCEPT !.err = "struct tags specify multiple indexes"]
                ELSE IF sf.kind # "Int"
                THEN [d EXCEPT !.err = "index field must have type int"]
                ELSE [d EXCEPT !.indexFieldIndex = i]
          [] OTHER -> [d EXCEPT !.err = "invalid struct tag"]

RECURSIVE ScanFrom(_, _, _, _)
ScanFrom(key, st, i, d) ==
    IF i >= Len(st) \/ d.err # "" THEN d
    ELSE ScanFrom(key, st, i + 1, ScanField(key, st, i, d))

\* The part of newTagHeap before heap.Init: the shape tests, the tag scan and
\* the test for a missing key field.
Describe(key, shape, st) ==
    CASE shape = "nil" -> [Blank EXCEPT !.err = "argument cannot be untyped nil"]
      [] shape = "nonptr" -> [Blank EXCEPT !.err = "argument must be pointer"]
      [] shape = "ptr" -> [Blank EXCEPT !.err = "argument must be pointer to slice"]
      [] shape = "ptrslice" ->
            [Blank EXCEPT !.err = "argument must be pointer to slice of pointer"]
      [] shape = "ptrsliceptr" ->
            [Blank EXCEPT !.err = "argument must be pointer to slice of pointer to struct"]
      [] OTHER ->
            LET d == ScanFrom(key, st, 0, Blank)
            IN  IF d.err = "" /\ d.keyFieldIndex < 0
                THEN [d EXCEPT !.err = "struct must indicate key field"]
                ELSE d

\* ------------------------------------------------------------- comparators
\* lessString, lessInt, lessUint, lessFloat: each is Go's < on the two key
\* values.  Key values are modelled as integers ordered as the kind orders
\* them.
lessString(vi, vj) == vi < vj
lessInt(vi, vj) == vi < vj
lessUint(vi, vj) == vi < vj
lessFloat(vi, vj) == vi < vj

\* s.less(vi, vj), with s.less the comparator the constructor bound.
CallLess(less, vi, vj) ==
    CASE less = "lessString" -> lessString(vi, vj)
      [] less = "lessInt" -> lessInt(vi, vj)
      [] less = "lessUint" -> lessUint(vi, vj)
      [] OTHER -> lessFloat(vi, vj)

\* ------------------------------------------------ heap.Interface methods
\* A heap value h is the slice h.s (record handles), the records' fields
\* h.rec (h.rec[r][f + 1] is field number f of record r), h.panic (a panic
\* is unwinding the call), h.ret (the value a call hands back), h.swaps (the
\* index pairs of the Swap calls that completed, in order) and h.sift (for
\* each pass of heap.down's loop over a node i with two children: i, the child
\* j it picked, and whether the two children's keys were equal).  th is the
\* descriptor that New built.

\* s.s.Index(i) panics unless 0 <= i < Len.
InRange(h, i) == 0 <= i /\ i < Len(h.s)

\* The key field of the record at index i.
KeyAt(th, h, i) == h.rec[h.s[i + 1]][th.keyFieldIndex + 1]

\* Whether tagHeap.Less(i, j) panics: Elem() of a nil pointer is the zero Value,
\* and Field on it panics.
LessPanics(h, i, j) == h.s[i + 1] = Nil \/ h.s[j + 1] = Nil

\* tagHeap.Less
Less(th, h, i, j) ==
    CallLess(th.less, KeyAt(th, h, i), KeyAt(th, h, j)) = th.minHeap

\* Faulty variant of SetIndex: the index is written into every record, as if
\* it were kept in one place for all of them.
SetIndexGlobal(th, rec, r, v) ==
    [q \in DOMAIN rec |-> [rec[q] EXCEPT ![th.indexFieldIndex + 1] = v]]

\* Faulty variant of SetIndex: the index is written into the key field.
SetIndexInKey(th, rec, r, v) == [rec EXCEPT ![r][th.keyFieldIndex + 1] = v]

\* SetInt on the index field of record r.
SetIndex(th, rec, r, v) == [rec EXCEPT ![r][th.indexFieldIndex + 1] = v]

\* tagHeap.Swap: three assignments through swapTemp, then the two index
\* fields, first the record now at i, then the record now at j.
Swap(th, h, i, j) ==
    IF h.panic THEN h
    ELSE IF ~InRange(h, i) \/ ~InRange(h, j) THEN [h EXCEPT !.panic = TRUE]
    ELSE LET swapTemp == h.s[i + 1]
             s1 == [h.s EXCEPT ![i + 1] = h.s[j + 1]]
             s2 == [s1 EXCEPT ![j + 1] = swapTemp]
             rec1 == IF th.indexFieldIndex >= 0
                     THEN SetIndex(th, h.rec, s2[i + 1], i) ELSE h.rec
             rec2 == IF th.indexFieldIndex >= 0
                     THEN SetIndex(th, rec1, s2[j + 1], j) ELSE rec1
         IN  IF th.indexFieldIndex >= 0 /\ (s2[i + 1] = Nil \/ s2[j + 1] = Nil)
             THEN [h EXCEPT !.s = s2, !.panic = TRUE]
             ELSE [h EXCEPT !.s = s2, !.rec = rec2,
                            !.swaps = Append(h.swaps, << i, j >>)]

\* tagHeap.Push of record r: the index field is set to the length before the
\* append.  For a nil pointer r the write to the index field panics; without
\* an index field the nil pointer is appended.
thPush(th, h, r) ==
    LET rec1 == IF th.indexFieldIndex >= 0
                THEN SetIndex(th, h.rec, r, Len(h.s)) ELSE h.rec
    IN  IF th.indexFieldIndex >= 0 /\ r = Nil THEN [h EXCEPT !.panic = TRUE]
        ELSE [h EXCEPT !.s = Append(h.s, r), !.rec = rec1]

\* tagHeap.Pop: nil on an empty slice, else the last element, cut off.
thPop(th, h) ==
    LET l == Len(h.s)
    IN  IF h.panic THEN h
        ELSE IF l = 0 THEN [h EXCEPT !.ret = Nil]
        ELSE [h EXCEPT !.ret = h.s[l], !.s = SubSeq(h.s, 1, l - 1)]

\* --------------------------------------------------------- container/heap
\* Go's integer division truncates toward zero.
GoDiv(a, b) == IF a >= 0 THEN a \div b ELSE -((-a) \div b)

\* Faulty variant of up: the new element rises one level at most.
upOnce(th, h, j) ==
    LET i == GoDiv(j - 1, 2)
    IN  IF h.panic THEN h
        ELSE IF i = j THEN h
        ELSE IF LessPanics(h, j, i) THEN [h EXCEPT !.panic = TRUE]
        ELSE IF ~Less(th, h, j, i) THEN h
        ELSE Swap(th, h, i, j)

\* heap.up
RECURSIVE upLoop(_, _, _)
upLoop(th, h, j) ==
    LET i == GoDiv(j - 1, 2)
    IN  IF h.panic THEN h
        ELSE IF i = j THEN h
        ELSE IF LessPanics(h, j, i) THEN [h EXCEPT !.panic = TRUE]
        ELSE IF ~Less(th, h, j, i) THEN h
        ELSE upLoop(th, Swap(th, h, i, j), i)

up(th, h, j) == upLoop(th, h, j)

\* Faulty variant of downLoop: the left child is always the one compared.
RECURSIVE downLoopLeftOnly(_, _, _, _)
downLoopLeftOnly(th, h, i, n) ==
    LET j1 == 2 * i + 1
    IN  IF h.panic \/ j1 >= n \/ j1 < 0 THEN [h |-> h, i |-> i]
        ELSE IF LessPanics(h, j1, i) THEN [h |-> [h EXCEPT !.panic = TRUE], i |-> i]
        ELSE IF ~Less(th, h, j1, i) THEN [h |-> h, i |-> i]
        ELSE downLoopLeftOnly(th, Swap(th, h, i, j1), j1, n)

\* The loop of heap.down from position i: the heap it leaves and the position
\* the element ends at.
RECURSIVE downLoop(_, _, _, _)
downLoop(th, h, i, n) ==
    LET j1 == 2 * i + 1
        j2 == j1 + 1
        j == IF j2 < n /\ Less(th, h, j2, j1) THEN j2 ELSE j1
        hl == IF j2 < n
              THEN [h EXCEPT !.sift =
                      Append(h.sift, [i |-> i, j |-> j,
                                      tie |-> KeyAt(th, h, j1) = KeyAt(th, h, j2)])]
              ELSE h
    IN  IF h.panic \/ j1 >= n \/ j1 < 0 THEN [h |-> h, i |-> i]
        ELSE IF (j2 < n /\ LessPanics(h, j2, j1)) \/ LessPanics(h, j, i)
        THEN [h |-> [h EXCEPT !.panic = TRUE], i |-> i]
        ELSE IF ~Less(th, h, j, i) THEN [h |-> hl, i |-> i]
        ELSE downLoop(th, Swap(th, hl, i, j), j, n)

\* heap.down: the heap, and whether the element moved (i > i0).
down(th, h, i0, n) ==
    LET r == downLoop(th, h, i0, n)
    IN  [h |-> r.h, moved |-> r.i > i0]

\* heap.Init: down from n/2 - 1 to 0.
RECURSIVE initLoop(_, _, _, _)
initLoop(th, h, i, n) ==
    IF i < 0 THEN h ELSE initLoop(th, down(th, h, i, n).h, i - 1, n)

heapInit(th, h) == initLoop(th, h, GoDiv(Len(h.s), 2) - 1, Len(h.s))

\* Faulty variant of heapPush: the whole slice is heapified again after the
\* new element has risen.
heapPushReinit(th, h, r) ==
    LET h1 == thPush(th, h, r)
    IN  heapInit(th, up(th, h1, Len(h1.s) - 1))

\* heap.Push
heapPush(th, h, r) ==
    LET h1 == thPush(th, h, r)
    IN  up(th, h1, Len(h1.s) - 1)

\* Faulty variant of heapPop: the new root is not sifted down.
heapPopNoDown(th, h) ==
    LET n == Len(h.s) - 1
    IN  thPop(th, Swap(th, h, 0, n))

\* Faulty variant of heapPop: an empty heap is handed to the container's own Pop.
heapPopGuarded(th, h) ==
    LET n == Len(h.s) - 1
        h1 == Swap(th, h, 0, n)
    IN  IF n < 0 THEN thPop(th, h) ELSE thPop(th, down(th, h1, 0, n).h)

\* heap.Pop: Swap(0, n) comes before the container's own Pop is asked.
heapPop(th, h) ==
    LET n == Len(h.s) - 1
        h1 == Swap(th, h, 0, n)
        h2 == IF h1.panic THEN h1 ELSE down(th, h1, 0, n).h
    IN  thPop(th, h2)

\* Faulty variant of heapRemove: the element moved to index i is only sifted down.
heapRemoveNoUp(th, h, i) ==
    LET n == Len(h.s) - 1
        h1 == Swap(th, h, i, n)
        h2 == IF h1.panic THEN h1 ELSE down(th, h1, i, n).h
    IN  IF n # i THEN thPop(th, h2) ELSE thPop(th, h)

\* Faulty variant of heapRemove: the swap and the sifts are made for the last
\* index too.
heapRemoveAlwaysSwap(th, h, i) ==
    LET n == Len(h.s) - 1
        h1 == Swap(th, h, i, n)
        d == down(th, h1, i, n)
        h2 == IF h1.panic THEN h1
              ELSE IF ~d.moved THEN up(th, d.h, i) ELSE d.h
    IN  thPop(th, h2)

\* heap.Remove of the element at index i.
heapRemove(th, h, i) ==
    LET n == Len(h.s) - 1
        h1 == Swap(th, h, i, n)
        d == down(th, h1, i, n)
        h2 == IF h1.panic THEN h1
              ELSE IF ~d.moved THEN up(th, d.h, i) ELSE d.h
    IN  IF n # i THEN thPop(th, h2) ELSE thPop(th, h)

\* -------------------------------------------------------------- public API
\* A pointer to tagHeap is << >> when nil and << d >> when it points to d.
NoHeap == << >>

\* Faulty variant of newTagHeap: the slice is bound and heapified as soon as the key
\* field is known, before the remaining fields are validated.
newTagHeapEagerInit(key, shape, st, h) ==
    LET d == Describe(key, shape, st)
    IN  IF d.err # ""
        THEN [t |-> NoHeap, err |-> d.err,
              h |-> IF d.keyFieldIndex >= 0 THEN heapInit(d, h) ELSE h]
        ELSE [t |-> << d >>, err |-> "", h |-> heapInit(d, h)]

\* newTagHeap: the pointer and the error it returns, and the caller's slice
\* and records as the call leaves them.  Every error returns before s.s is
\* bound and heap.Init runs.
newTagHeap(key, shape, st, h) ==
    LET d == Describe(key, shape, st)
    IN  IF d.err # "" THEN [t |-> NoHeap, err |-> d.err, h |-> h]
        ELSE [t |-> << d >>, err |-> "", h |-> heapInit(d, h)]

\* New
TagHeapNew(key, shape, st, h) ==
    LET r == newTagHeap(key, shape, st, h)
    IN  IF r.err # "" THEN [t |-> NoHeap, err |-> r.err, h |-> r.h]
        ELSE [t |-> r.t, err |-> "", h |-> r.h]

\* Argument handles of Push and Remove.  A handle of type "T" is a pointer to
\* the struct type the container was built for (record u.r); "Twin" is a
\* pointer to another struct type with the same field layout, whose field at
\* the index position holds u.x; "Alien" is a pointer to a struct of another
\* layout; "NilIface" is the nil interface.
RecHandle(r) == [type |-> "T", r |-> r, x |-> 0]
TwinHandle(x) == [type |-> "Twin", r |-> Nil, x |-> x]
AlienHandle == [type |-> "Alien", r |-> Nil, x |-> 0]
NilHandle == [type |-> "NilIface", r |-> Nil, x |-> 0]
\* The nil pointer of the container's own pointer type.
NilPtrHandle == [type |-> "T", r |-> Nil, x |-> 0]

\* reflect.TypeOf(u).AssignableTo(th.pt): only the pointer type itself.
\* (TypeOf of the nil interface is nil, and the method call on it panics.)
AssignableTo(u) == u.type = "T"

\* reflect.TypeOf(u).ConvertibleTo(th.pt): pointers whose base types have
\* identical underlying types, struct tags ignored, convert.
ConvertibleTo(u) == u.type \in {"T", "Twin"}

\* Whether reading the index field through u panics: u is a nil pointer.
IndexFieldPanics(u) == u.type = "T" /\ u.r = Nil

\* reflect.ValueOf(u).Elem().Field(th.indexFieldIndex).Int()
IndexFieldOf(th, h, u) ==
    IF u.type = "T" THEN h.rec[u.r][th.indexFieldIndex + 1] ELSE u.x

\* TagHeap.Len: tagHeap.Len, which is s.s.Len().
TagHeapLen(th, h) == [h EXCEPT !.ret = Len(h.s)]

\* TagHeap.Push
TagHeapPush(th, h, u) ==
    IF ~AssignableTo(u) THEN [h EXCEPT !.panic = TRUE]
    ELSE heapPush(th, h, u.r)

\* TagHeap.Pop
TagHeapPop(th, h) == heapPop(th, h)

\* Faulty variant of TagHeapRemove: without an index field the call falls back to Pop.
TagHeapRemoveFallback(th, h, u) ==
    IF th.indexFieldIndex < 0 THEN heapPop(th, h)
    ELSE IF ~ConvertibleTo(u) THEN [h EXCEPT !.panic = TRUE]
    ELSE IF IndexFieldPanics(u) THEN [h EXCEPT !.panic = TRUE]
    ELSE heapRemove(th, h, IndexFieldOf(th, h, u))

\* Faulty variant of TagHeapRemove: the call panics unless the slice holds the
\* handle's own record at the index read from it.
TagHeapRemoveChecked(th, h, u) ==
    IF th.indexFieldIndex < 0 THEN [h EXCEPT !.panic = TRUE]
    ELSE IF ~ConvertibleTo(u) THEN [h EXCEPT !.panic = TRUE]
    ELSE IF IndexFieldPanics(u) THEN [h EXCEPT !.panic = TRUE]
    ELSE IF ~InRange(h, IndexFieldOf(th, h, u)) THEN [h EXCEPT !.panic = TRUE]
    ELSE IF u.type # "T" \/ h.s[IndexFieldOf(th, h, u) + 1] # u.r
    THEN [h EXCEPT !.panic = TRUE]
    ELSE heapRemove(th, h, IndexFieldOf(th, h, u))

\* TagHeap.Remove
TagHeapRemove(th, h, u) ==
    IF th.indexFieldIndex < 0 THEN [h EXCEPT !.panic = TRUE]
    ELSE IF ~ConvertibleTo(u) THEN [h EXCEPT !.panic = TRUE]
    ELSE IF IndexFieldPanics(u) THEN [h EXCEPT !.panic = TRUE]
    ELSE heapRemove(th, h, IndexFieldOf(th, h, u))

\* ------------------------------------------------------------------ state
VARIABLES
    pc,     \* "new": New not yet called; "called": New has returned
    nskey,  \* the tag key given to New
    shape,  \* the shape of New's argument
    st,     \* the struct type: its fields in order
    s,      \* the caller's slice, which the container manages in place
    rec,    \* the records' field values
    t,      \* the *TagHeap that New returned
    err,    \* the error that New returned ("" is nil)
    op,     \* the last call
    arg,    \* its argument handle
    ret,    \* the value it returned (Nil when none)
    fault,  \* whether it panicked
    pushed, \* the caller's note of the records it pushed, in order
    popped, \* the caller's note of the records Pop returned, in order
    s2,     \* the slice of a second container over the same struct type
    h2,     \* the second container (<< >> while there is none)
    who,    \* the container the last call was on: 1, 2, or 0 before any call
    solo    \* per container, what its own calls alone give (<< >> when unused)

vars ==
    << pc, nskey, shape, st, s, rec, t, err, op, arg, ret, fault, pushed, popped,
       s2, h2, who, solo >>

\* Whether record r is an element of slice q.
InSeq(q, r) == \E k \in 1..Len(q) : q[k] = r

\* A container is in use.
Ready == pc = "called" /\ t # NoHeap

\* The descriptor of the container in use.
th == t[1]

\* The heap value of the current state, and the state a call leaves.
Cur ==
    [s |-> s, rec |-> rec, panic |-> FALSE, ret |-> Nil, swaps |-> << >>,
     sift |-> << >>]

Leave(name, u, h) ==
    /\ s' = h.s
    /\ rec' = h.rec
    /\ op' = name
    /\ arg' = u
    /\ ret' = IF h.panic THEN Nil ELSE h.ret
    /\ fault' = h.panic
    /\ UNCHANGED << pc, nskey, shape, st, t, err, s2, h2, who, solo >>

\* ---------------------------------------------------------------- actions
\* New(key, ps)
New ==
    /\ pc = "new"
    /\ LET r == TagHeapNew(nskey, shape, st, Cur)
       IN  /\ t' = r.t
           /\ err' = r.err
           /\ s' = r.h.s
           /\ rec' = r.h.rec
    /\ pc' = "called"
    /\ op' = "New"
    /\ arg' = NilHandle
    /\ ret' = Nil
    /\ fault' = FALSE
    /\ UNCHANGED << nskey, shape, st, pushed, popped, s2, h2, who, solo >>

\* Push of a record that is not on the heap.  Pushes are modelled for a
\* caller that owns the records Recs; over the larger record set of InitDeep
\* the caller only pops and removes.
PushRec(r) ==
    /\ Ready
    /\ DOMAIN rec = Recs
    /\ ~InSeq(s, r)
    /\ Leave("Push", RecHandle(r), TagHeapPush(th, Cur, RecHandle(r)))

Push == \E r \in Recs : PushRec(r) /\ UNCHANGED << pushed, popped >>

\* Pop
PopCall ==
    /\ Ready
    /\ Leave("Pop", NilHandle, TagHeapPop(th, Cur))

Pop == PopCall /\ UNCHANGED << pushed, popped >>

\* Remove of a record that is on the heap.
Remove ==
    /\ Ready
    /\ \E k \in 1..Len(s) :
          Leave("Remove", RecHandle(s[k]), TagHeapRemove(th, Cur, RecHandle(s[k])))
    /\ UNCHANGED << pushed, popped >>

\* Calls outside the caller's contract.
\* Remove of a record that is not on the heap.
RemoveAbsent ==
    /\ Ready
    /\ \E r \in Recs :
          /\ ~InSeq(s, r)
          /\ Leave("Remove", RecHandle(r), TagHeapRemove(th, Cur, RecHandle(r)))
    /\ UNCHANGED << pushed, popped >>

\* The values a Twin's index-position field may hold: the root, the second
\* element.
TwinXs == {0, 1}

ForeignHandles == {TwinHandle(x) : x \in TwinXs} \cup {AlienHandle, NilHandle}

\* Push of a handle of another type.
PushForeign ==
    /\ Ready
    /\ \E u \in ForeignHandles : Leave("Push", u, TagHeapPush(th, Cur, u))
    /\ UNCHANGED << pushed, popped >>

\* Remove of a handle of another type.
RemoveForeign ==
    /\ Ready
    /\ \E u \in ForeignHandles : Leave("Remove", u, TagHeapRemove(th, Cur, u))
    /\ UNCHANGED << pushed, popped >>

\* Len
LenCall ==
    /\ Ready
    /\ Leave("Len", NilHandle, TagHeapLen(th, Cur))
    /\ UNCHANGED << pushed, popped >>

\* Push of the nil pointer of the container's pointer type, while the slice
\* holds none.
PushNilPtr ==
    /\ Ready
    /\ ~InSeq(s, Nil)
    /\ Leave("Push", NilPtrHandle, TagHeapPush(th, Cur, NilPtrHandle))
    /\ UNCHANGED << pushed, popped >>

\* Remove of the nil pointer of the container's pointer type.
RemoveNilPtr ==
    /\ Ready
    /\ Leave("Remove", NilPtrHandle, TagHeapRemove(th, Cur, NilPtrHandle))
    /\ UNCHANGED << pushed, popped >>

\* A caller that pushes some records, noting each, and then only pops, noting
\* what each Pop returns, as many times as it pushed.
PushNoted ==
    /\ popped = << >>
    /\ \E r \in Recs :
          /\ PushRec(r)
          /\ pushed' = Append(pushed, r)
    /\ UNCHANGED popped

PopNoted ==
    /\ Len(popped) < Len(pushed)
    /\ PopCall
    /\ popped' = Append(popped, ret')
    /\ UNCHANGED pushed

\* Callers that keep the contract of Push and Remove.
Next == New \/ Push \/ Pop \/ Remove

\* Any caller.
NextAny == New \/ Push \/ Pop \/ Remove \/ RemoveAbsent \/ PushForeign \/ RemoveForeign

\* Any caller, nil pointers included.
NextFault ==
    New \/ Push \/ Pop \/ Remove \/ RemoveAbsent \/ PushForeign \/ RemoveForeign
        \/ PushNilPtr \/ RemoveNilPtr

\* A caller that also asks for the length, and removes records that are not
\* on the heap.
NextFrame == New \/ Push \/ Pop \/ Remove \/ RemoveAbsent \/ LenCall

\* Pushes, then as many pops.
NextPushPop == New \/ PushNoted \/ PopNoted

\* ---------------------------------------------------------- initial states
\* Sequences of distinct records, of length at most n.
DistinctSeqs(n) ==
    { q \in UNION { [1..k -> Recs] : k \in 0..n } :
        \A a, b \in 1..Len(q) : a # b => q[a] # q[b] }

\* The values an index field of a record in the initial slice may hold: Go's
\* zero value and one other.
XInit == {0, 1}

\* Key fields: any keys, records numbered in key order (which loses nothing:
\* handles are interchangeable).  All zero when the type has no key field.
KeyChoices(d) ==
    IF d.keyFieldIndex < 0 THEN { [r \in Recs |-> 0] }
    ELSE { kf \in [Recs -> Keys] : \A r \in 1..(NRec - 1) : kf[r] <= kf[r + 1] }

\* Index fields: any value for a record of the initial slice q, Go's zero value
\* for a fresh record.  All zero when the type has no index field.
IndexChoices(d, q) ==
    IF d.indexFieldIndex < 0 THEN { [r \in Recs |-> 0] }
    ELSE { xf \in [Recs -> XInit] : \A r \in Recs : ~InSeq(q, r) => xf[r] = 0 }

\* The records' field values before New, for struct type ty read to descriptor
\* d: the key field from kf, the index field from xf, zero elsewhere.
MakeRecs(ty, d, kf, xf) ==
    [r \in Recs |->
        [k \in 1..Len(ty) |->
            IF k = d.keyFieldIndex + 1 THEN kf[r]
            ELSE IF k = d.indexFieldIndex + 1 THEN xf[r]
            ELSE 0]]

\* The struct types and tag keys of the tests: a min-heap and a max-heap with
\* an index field, a max-heap without one, and a type with no tag under the key.
OpCases ==
    { << TestMultipleS, "heap" >>, << TestMultipleS, "pq" >>,
      << TestSingleS, "pq" >>, << TestSingleS, "heap" >> }

InitCommon ==
    /\ pc = "new"
    /\ t = NoHeap
    /\ err = ""
    /\ op = "none"
    /\ arg = NilHandle
    /\ ret = Nil
    /\ fault = FALSE
    /\ pushed = << >>
    /\ popped = << >>
    /\ s2 = << >>
    /\ h2 = NoHeap
    /\ who = 0
    /\ solo = << >>

InitWith(slices) ==
    /\ InitCommon
    /\ shape = "ok"
    /\ \E c \in OpCases :
          /\ st = c[1]
          /\ nskey = c[2]
          /\ s \in slices
          /\ LET d == ScanFrom(c[2], c[1], 0, Blank)
             IN  \E kf \in KeyChoices(d) : \E xf \in IndexChoices(d, s) :
                    rec = MakeRecs(c[1], d, kf, xf)

\* A full initial slice of NDeep records in any order, on the min-heap and
\* the max-heap with an index field; the caller has set each record's index
\* field to its position.  Two key values give every order relation between
\* a parent, its children and the last element.
DeepRecs == 1..NDeep
DeepSlices ==
    { q \in [1..NDeep -> DeepRecs] : \A a, b \in 1..NDeep : a # b => q[a] # q[b] }
DeepKeyChoices ==
    { kf \in [DeepRecs -> {1, 2}] : \A r \in 1..(NDeep - 1) : kf[r] <= kf[r + 1] }

InitDeep ==
    /\ InitCommon
    /\ shape = "ok"
    /\ st = TestMultipleS
    /\ nskey \in Namespaces
    /\ s \in DeepSlices
    /\ LET d == ScanFrom(nskey, st, 0, Blank)
       IN  \E kf \in DeepKeyChoices :
              rec = [r \in DeepRecs |->
                       [k \in 1..Len(st) |->
                           IF k = d.keyFieldIndex + 1 THEN kf[r]
                           ELSE IF k = d.indexFieldIndex + 1
                                THEN (CHOOSE i \in 1..NDeep : s[i] = r) - 1
                           ELSE 0]]

\* New over any initial slice of at most MaxInit records, or over a full deep
\* slice, then calls that keep the contract.
InitShort == InitWith(DistinctSeqs(MaxInit))

Init == InitShort \/ InitDeep

Spec == Init /\ [][Next]_vars

\* New over an empty slice, then any calls.
InitAny == InitWith({ << >> })

SpecAny == InitAny /\ [][NextAny]_vars

\* New over an empty slice, then pushes, then as many pops.
SpecPushPop == InitAny /\ [][NextPushPop]_vars

\* New over an empty slice or a slice of one record, then any calls, nil
\* pointers included.
InitFault == InitWith({ q \in DistinctSeqs(MaxInit) : Len(q) <= 1 })

SpecFault == InitFault /\ [][NextFault]_vars

\* New over any initial slice of at most MaxInit records, then Len, Push, Pop
\* and any Remove of a record.
SpecFrame == InitShort /\ [][NextFrame]_vars

\* New over every struct type of at most MaxFields fields drawn from
\* FieldChoices, under either key, and every argument shape.
FieldChoices ==
    { Field(tv, "", TRUE, k) : tv \in {"min", "max"}, k \in Kinds }
    \cup { Field(tv, "", FALSE, "Int") : tv \in {"min", "max", "index"} }
    \cup { Field("index", "", TRUE, k) : k \in {"Int", "Int8", "String"} }
    \cup { Field("", "", TRUE, "Int"), Field("bogus", "", TRUE, "Int"),
           Field("", "max", TRUE, "Int"), Field("min", "bogus", TRUE, "Int"),
           Field("index", "index", TRUE, "Int") }

StructTypes == UNION { [1..k -> FieldChoices] : k \in 0..MaxFields }

\* The slice of the construction specification: out of heap order both ways
\* when the keys are the record numbers.
NewSlice == << 2, 1, 3 >>

InitNew ==
    /\ InitCommon
    /\ s = NewSlice
    /\ nskey \in Namespaces
    /\ \/ shape = "ok" /\ st \in StructTypes
       \/ shape \in Shapes \ {"ok"} /\ st = << >>
    /\ LET d == ScanFrom(nskey, st, 0, Blank)
       IN  rec = MakeRecs(st, d, [r \in Recs |-> IF r <= MaxKey THEN r ELSE MaxKey],
                          [r \in Recs |-> 0])

NextNew == New

SpecNew == InitNew /\ [][NextNew]_vars

\* ---------------------------------------------------------- two containers
\* TestMultiple: h1 is New("heap", &s1), a min-heap on N, and h2 is
\* New("pq", &s2), a max-heap on Tent, both over type s with the one index
\* field X.  The first container lives in s and t, the second in s2 and h2.
TwoRecs == 1..(2 * NOwn)

\* The records of caller c.
Own(c) == IF c = 1 THEN 1..NOwn ELSE (NOwn + 1)..(2 * NOwn)

SliceOf(c) == IF c = 1 THEN s ELSE s2
ThOf(c) == IF c = 1 THEN t[1] ELSE h2[1]
BothReady == Ready /\ h2 # NoHeap

HeapVal(q, rc) ==
    [s |-> q, rec |-> rc, panic |-> FALSE, ret |-> Nil, swaps |-> << >>,
     sift |-> << >>]

\* Container c as it is, and as its own calls alone have left it.
Real(c) == HeapVal(SliceOf(c), rec)
Alone(c) == HeapVal(solo[c].s, solo[c].rec)

\* What a call leaves of Alone(c); only the outcome of the last call is kept.
Shadow(c, hs) ==
    [d \in 1..2 |->
        IF d = c
        THEN [s |-> hs.s, rec |-> hs.rec,
              ret |-> IF hs.panic THEN Nil ELSE hs.ret, fault |-> hs.panic]
        ELSE [solo[d] EXCEPT !.ret = Nil, !.fault = FALSE]]

\* New("pq", &s2)
NewH2 ==
    /\ Ready
    /\ h2 = NoHeap
    /\ LET r == TagHeapNew("pq", shape, st, HeapVal(s2, rec))
       IN  /\ h2' = r.t
           /\ s2' = r.h.s
           /\ rec' = r.h.rec
    /\ op' = "New"
    /\ arg' = NilHandle
    /\ ret' = Nil
    /\ fault' = FALSE
    /\ UNCHANGED << pc, nskey, shape, st, s, t, err, pushed, popped, who, solo >>

\* The state a call on container c leaves.
LeaveOn(c, name, u, h) ==
    /\ s' = IF c = 1 THEN h.s ELSE s
    /\ s2' = IF c = 2 THEN h.s ELSE s2
    /\ rec' = h.rec
    /\ op' = name
    /\ arg' = u
    /\ ret' = IF h.panic THEN Nil ELSE h.ret
    /\ fault' = h.panic
    /\ who' = c
    /\ UNCHANGED << pc, nskey, shape, st, t, err, h2, pushed, popped >>

\* Push, Pop and Remove on container c.
PushOn(c, r) ==
    /\ BothReady
    /\ ~InSeq(SliceOf(c), r)
    /\ LeaveOn(c, "Push", RecHandle(r), TagHeapPush(ThOf(c), Real(c), RecHandle(r)))

PopOn(c) ==
    /\ BothReady
    /\ LeaveOn(c, "Pop", NilHandle, TagHeapPop(ThOf(c), Real(c)))

RemoveOn(c, r) ==
    /\ BothReady
    /\ InSeq(SliceOf(c), r)
    /\ LeaveOn(c, "Remove", RecHandle(r), TagHeapRemove(ThOf(c), Real(c), RecHandle(r)))

\* Each caller works on its own container with its own records; solo follows
\* each container's own calls.
PushOwn ==
    \E c \in 1..2 : \E r \in Own(c) :
        /\ PushOn(c, r)
        /\ solo' = Shadow(c, TagHeapPush(ThOf(c), Alone(c), RecHandle(r)))

PopOwn ==
    \E c \in 1..2 :
        /\ PopOn(c)
        /\ solo' = Shadow(c, TagHeapPop(ThOf(c), Alone(c)))

RemoveOwn ==
    \E c \in 1..2 : \E r \in Own(c) :
        /\ RemoveOn(c, r)
        /\ solo' = Shadow(c, TagHeapRemove(ThOf(c), Alone(c), RecHandle(r)))

NextTwo == New \/ NewH2 \/ PushOwn \/ PopOwn \/ RemoveOwn

\* Both containers over the records of the first caller: a record may be on
\* both heaps at once.
PushShared == \E c \in 1..2 : \E r \in Own(1) : PushOn(c, r) /\ UNCHANGED solo
PopShared == \E c \in 1..2 : PopOn(c) /\ UNCHANGED solo
RemoveShared == \E c \in 1..2 : \E r \in Own(1) : RemoveOn(c, r) /\ UNCHANGED solo

NextShared == New \/ NewH2 \/ PushShared \/ PopShared \/ RemoveShared

\* Both slices empty before the two New calls; record r has Tent = kt[r],
\* N = kn[r] and X = 0.
InitTwoWith(kn, kt) ==
    /\ pc = "new"
    /\ t = NoHeap
    /\ err = ""
    /\ op = "none"
    /\ arg = NilHandle
    /\ ret = Nil
    /\ fault = FALSE
    /\ pushed = << >>
    /\ popped = << >>
    /\ shape = "ok"
    /\ st = TestMultipleS
    /\ nskey = "heap"
    /\ s = << >>
    /\ s2 = << >>
    /\ h2 = NoHeap
    /\ who = 0
    /\ rec = [r \in TwoRecs |-> << kt[r], kn[r], 0 >>]
    /\ solo = [c \in 1..2 |-> [s |-> << >>, rec |-> rec, ret |-> Nil, fault |-> FALSE]]

\* Two key values give every order relation between two records.
TwoKeys == {1, 2}

\* Key values of the records of caller c, in record order; Go's zero value
\* on the other records.
OwnKeys(c) ==
    { k \in [TwoRecs -> {0} \cup TwoKeys] :
        /\ \A r \in TwoRecs \ Own(c) : k[r] = 0
        /\ \A r \in Own(c) : k[r] \in TwoKeys
        /\ \A q, r \in Own(c) : q < r => k[q] <= k[r] }

InitTwo == \E kn \in OwnKeys(1) : \E kt \in OwnKeys(2) : InitTwoWith(kn, kt)

SpecTwo == InitTwo /\ [][NextTwo]_vars

\* The records of the first caller carry both keys: N in record order, Tent
\* in any order.
SharedKeys ==
    { k \in [TwoRecs -> {0} \cup TwoKeys] :
        /\ \A r \in TwoRecs \ Own(1) : k[r] = 0
        /\ \A r \in Own(1) : k[r] \in TwoKeys }

InitShared == \E kn \in OwnKeys(1) : \E kt \in SharedKeys : InitTwoWith(kn, kt)

SpecShared == InitShared /\ [][NextShared]_vars

\* ----------------------------------------------------------------- claims
\* The key field of record r, read as the container in use reads it.
KeyOf(r) == rec[r][th.keyFieldIndex + 1]

\* The index field of record r.
IndexOf(r) == rec[r][th.indexFieldIndex + 1]

\* key a is not worse than key b in the container's direction.
NotWorse(a, b) == IF th.minHeap THEN a <= b ELSE a >= b

\* The slice is in heap order on the keys: no child is strictly better than
\* its parent (Go index i has parent (i - 1) div 2).
HeapOrdered ==
    \A i \in 1..(Len(s) - 1) :
        NotWorse(KeyOf(s[((i - 1) \div 2) + 1]), KeyOf(s[i + 1]))

\* C1: after New has returned a container and after every later Push, Pop or
\* Remove call that returns, the slice is in heap order on the keys: every
\* parent's key is <= its child's on a min-heap, >= on a max-heap.
C1_HeapOrder == (Ready /\ ~fault) => HeapOrdered

\* A Remove has returned on a max-heap that still holds three records with
\* different keys.
C1_Witness ==
    /\ Ready /\ ~fault /\ op = "Remove" /\ ~th.minHeap
    /\ Len(s) = 3 /\ KeyOf(s[1]) > KeyOf(s[2]) /\ KeyOf(s[1]) > KeyOf(s[3])

\* C2 (as claimed): on a container with an index field, after every Push, Pop
\* or Remove call every record in the slice holds its own index in its index
\* field, whatever the fields of the initial records held.
C2_PositionConsistent ==
    (Ready /\ th.indexFieldIndex >= 0 /\ op \in {"Push", "Pop", "Remove"})
        => \A k \in 1..Len(s) : IndexOf(s[k]) = k - 1

\* C3 (as claimed): on a container with an index field, Remove(e) of a record
\* e in the slice returns e, leaves e out of the slice, shortens the slice by
\* one, keeps every other record and leaves the slice in heap order.
C3_RemoveCorrect ==
    [][(Ready /\ th.indexFieldIndex >= 0 /\ op' = "Remove"
            /\ arg'.type = "T" /\ InSeq(s, arg'.r))
        => (/\ ~fault'
            /\ ret' = arg'.r
            /\ ~InSeq(s', arg'.r)
            /\ Len(s') = Len(s) - 1
            /\ \A r \in Recs \ {arg'.r} : InSeq(s, r) => InSeq(s', r)
            /\ HeapOrdered')]_vars

\* C4: Pop on a slice of at least one record returns a record of the slice
\* whose key no other key of the slice beats (the minimum on a min-heap, the
\* maximum on a max-heap), takes exactly that record out and shortens the
\* slice by one.
C4_PopBest ==
    [][(Ready /\ Len(s) >= 1 /\ op' = "Pop")
        => (/\ ~fault'
            /\ InSeq(s, ret')
            /\ \A k \in 1..Len(s) : NotWorse(KeyOf(ret'), KeyOf(s[k]))
            /\ ~InSeq(s', ret')
            /\ Len(s') = Len(s) - 1
            /\ \A r \in Recs \ {ret'} : InSeq(s, r) <=> InSeq(s', r))]_vars

\* A Pop has returned a record and left at least two behind, one of them with
\* another key.
C4_Witness ==
    /\ Ready /\ op = "Pop" /\ ~fault /\ ret # Nil /\ Len(s) >= 2
    /\ \E k \in 1..Len(s) : KeyOf(s[k]) # KeyOf(ret)

\* C5: from an empty heap, N pushes followed by N pops return exactly the N
\* pushed records, each once, in non-decreasing key order on a min-heap and
\* non-increasing key order on a max-heap, and leave the heap empty.
C5_PopOrdering ==
    (Ready /\ Len(popped) = Len(pushed))
        => /\ Len(s) = 0
           /\ \A k \in 1..Len(popped) : popped[k] \in Recs
           /\ { popped[k] : k \in 1..Len(popped) } = { pushed[k] : k \in 1..Len(pushed) }
           /\ \A a, b \in 1..Len(popped) : a # b => popped[a] # popped[b]
           /\ \A k \in 1..(Len(popped) - 1) :
                 NotWorse(KeyOf(popped[k]), KeyOf(popped[k + 1]))

\* Every record was pushed and popped, the keys differ, and the pops came in
\* another order than the pushes.
C5_Witness ==
    /\ Ready /\ Len(pushed) = NRec /\ Len(popped) = NRec
    /\ KeyOf(popped[1]) # KeyOf(popped[NRec])
    /\ popped # pushed

\* C6 (as claimed): Pop on an empty heap returns nil without a panic and
\* leaves the slice empty.
C6_PopEmptyBenign ==
    [][(Ready /\ Len(s) = 0 /\ op' = "Pop")
        => (~fault' /\ ret' = Nil /\ s' = << >>)]_vars

\* C6 (amended): Pop on an empty heap panics; the slice stays empty, the
\* records and the container are untouched, and a Push after it succeeds.
C6_PopEmptyFaults ==
    /\ [][(Ready /\ Len(s) = 0 /\ op' = "Pop")
            => (fault' /\ s' = << >> /\ rec' = rec /\ t' = t)]_vars
    /\ [][(Ready /\ op = "Pop" /\ fault /\ op' = "Push" /\ arg'.type = "T")
            => (~fault' /\ s' = << arg'.r >>)]_vars

\* A Pop has panicked on an empty slice.
C6_Witness == Ready /\ op = "Pop" /\ fault /\ s = << >>

\* The fields of struct type ty that carry a tag under key, and those among
\* them tagged as key field and as index field.
Tagged(key, ty) == { i \in 1..Len(ty) : ty[i].tag[key] # "" }
KeyFields(key, ty) == { i \in 1..Len(ty) : ty[i].tag[key] \in {"min", "max"} }
IndexFields(key, ty) == { i \in 1..Len(ty) : ty[i].tag[key] = "index" }

\* Kinds that are string, signed integer, unsigned integer or float.
OrderedKinds == {"String", "Int", "Int8", "Uint", "Float64"}

\* The rule of claim C7.
ValidTags(key, ty) ==
    /\ Cardinality(KeyFields(key, ty)) = 1
    /\ \A i \in KeyFields(key, ty) : ty[i].exported /\ ty[i].kind \in OrderedKinds
    /\ Cardinality(IndexFields(key, ty)) <= 1
    /\ \A i \in IndexFields(key, ty) : ty[i].exported /\ ty[i].kind = "Int"
    /\ \A i \in Tagged(key, ty) : ty[i].tag[key] \in {"min", "max", "index"}

\* ty without the fields that carry no tag under key.
OnlyTagged(key, ty) == SelectSeq(ty, LAMBDA f : f.tag[key] # "")

C8_Atomic ==
    /\ [](pc = "called" => ((t # NoHeap /\ err = "") \/ (t = NoHeap /\ err # "")))
    /\ [][(pc = "new" /\ pc' = "called" /\ err' # "") => (s' = s /\ rec' = rec)]_vars

\* New returned an error on a type whose first field is a usable key field:
\* the error was found after the ordering was known.
C8_Witness ==
    /\ pc = "called" /\ err # "" /\ t = NoHeap /\ shape = "ok" /\ Len(st) >= 2
    /\ st[1].tag[nskey] = "max" /\ st[1].exported /\ st[1].kind = "Int"

\* C9 (as claimed): Push or Remove with a handle whose type is not the pointer
\* type the container was built for always panics, also for a pointer to
\* another struct type with the same field layout.
C9_TypeMismatchFaults ==
    (Ready /\ op \in {"Push", "Remove"} /\ arg.type # "T") => fault

\* C10: on a container without an index field every Remove call panics,
\* whatever handle is passed and whatever the heap holds, and the slice and
\* the records are unchanged by the call.
C10_RemoveNoIndex ==
    [][(Ready /\ th.indexFieldIndex < 0 /\ op' = "Remove")
        => (fault' /\ s' = s /\ rec' = rec)]_vars

\* A Remove of a record of the slice has panicked on a container without an
\* index field that holds two or more records.
C10_Witness ==
    /\ Ready /\ th.indexFieldIndex < 0 /\ op = "Remove" /\ fault
    /\ arg.type = "T" /\ InSeq(s, arg.r) /\ Len(s) >= 2

\* The slice is in heap order on the keys, a nil pointer having no key to
\* compare: every child and its parent are records, and the child is not
\* strictly better.
StoredOrdered ==
    \A i \in 1..(Len(s) - 1) :
        /\ s[i + 1] # Nil
        /\ s[((i - 1) \div 2) + 1] # Nil
        /\ NotWorse(KeyOf(s[((i - 1) \div 2) + 1]), KeyOf(s[i + 1]))

\* C11 (as claimed): every Push, Pop or Remove call that panics leaves the
\* slice (length and order) and every record's index field as they were before
\* the call; a call that returns leaves the slice in heap order.
C11_NoPartialMutation ==
    [][(Ready /\ op' \in {"Push", "Pop", "Remove"})
        => IF fault' THEN s' = s /\ rec' = rec ELSE StoredOrdered']_vars

\* C12: two containers built under different tag keys over one struct type,
\* each on its own slice and with its own records: under any interleaving of
\* Push, Pop and Remove calls, every call returns what it returns when the
\* container's calls run alone, each slice and each caller's records are as
\* the container's own calls alone leave them, and a call on one container
\* changes neither the other's slice nor the other's records.
C12_Independent ==
    /\ []((BothReady /\ who \in 1..2)
            => /\ ret = solo[who].ret
               /\ fault = solo[who].fault
               /\ \A c \in 1..2 :
                     /\ SliceOf(c) = solo[c].s
                     /\ \A r \in Own(c) : rec[r] = solo[c].rec[r])
    /\ [][/\ who' = 1 => (s2' = s2 /\ \A r \in Own(2) : rec'[r] = rec[r])
          /\ who' = 2 => (s' = s /\ \A r \in Own(1) : rec'[r] = rec[r])]_vars

\* A Remove on the first container has returned a record and left two, swapping
\* on the way, while the second container holds all of its records.
C12_Witness ==
    /\ BothReady /\ who = 1 /\ op = "Remove" /\ ~fault /\ ret \in Own(1)
    /\ Len(s) = NOwn - 1 /\ Len(s2) = NOwn
    /\ KeyOf(s[1]) # KeyOf(ret)

\* Go index of the parent of the element at Go index i >= 1.
ParentOf(i) == (i - 1) \div 2

\* C13 (as claimed): after any sequence of Push, Pop and Remove calls,
\* Less(p, i) is true for every non-root index i with parent p, on min-heaps
\* and on max-heaps, also when parent and child have equal keys.
C13_LessParentChild ==
    (Ready /\ ~fault /\ op \in {"Push", "Pop", "Remove"})
        => \A i \in 1..(Len(s) - 1) : Less(th, Cur, ParentOf(i), i)

\* C13 (amended): for every non-root index i with parent p, on a min-heap
\* Less(i, p) is false, and Less(p, i) is true exactly when the two keys
\* differ; on a max-heap Less(p, i) is true, and Less(i, p) is true exactly
\* when the two keys are equal.
C13_LessByDirection ==
    (Ready /\ ~fault)
        => \A i \in 1..(Len(s) - 1) :
              LET p == ParentOf(i)
                  tie == KeyAt(th, Cur, p) = KeyAt(th, Cur, i)
              IN  IF th.minHeap
                  THEN ~Less(th, Cur, i, p) /\ (Less(th, Cur, p, i) <=> ~tie)
                  ELSE Less(th, Cur, p, i) /\ (Less(th, Cur, i, p) <=> tie)

\* A Remove has returned on a min-heap of three or more records whose root
\* and left child have equal keys and whose right child has a larger key.
C13_Witness ==
    /\ Ready /\ ~fault /\ op = "Remove" /\ th.minHeap /\ Len(s) >= 3
    /\ KeyOf(s[1]) = KeyOf(s[2]) /\ KeyOf(s[1]) < KeyOf(s[3])

\* Height of the binary tree that n >= 1 slice elements form.
RECURSIVE Height(_)
Height(n) == IF n <= 1 THEN 0 ELSE 1 + Height(n \div 2)

\* The call that a step to op', arg' makes on the container in use.
StepCall ==
    CASE op' = "Push" -> TagHeapPush(th, Cur, arg')
      [] op' = "Pop" -> TagHeapPop(th, Cur)
      [] OTHER -> TagHeapRemove(th, Cur, arg')

\* C14: every Push, Pop and Remove call on a heap of n elements completes
\* after at most (tree height + 1) swaps, on min-heaps and on max-heaps, also
\* when all keys are equal and the max-heap's Less is true both ways.
C14_BoundedSwaps ==
    [][(Ready /\ op' \in {"Push", "Pop", "Remove"})
        => /\ StepCall.s = s' /\ StepCall.rec = rec' /\ StepCall.panic = fault'
           /\ Len(StepCall.swaps) <= Height(Len(s)) + 1]_vars

\* A Pop has returned on a max-heap of NDeep records that all have the same
\* key.
C14_Witness ==
    /\ Ready /\ ~th.minHeap /\ op = "Pop" /\ ~fault /\ Len(s) = NDeep - 1
    /\ \A r \in DOMAIN rec : KeyOf(r) = KeyOf(ret)

\* C15 (as claimed): whenever Pop or Remove sifts a node down and the node's
\* two children have equal keys, the left child is the one picked, on
\* min-heaps and on max-heaps.
C15_TieLeft ==
    [][(Ready /\ op' \in {"Pop", "Remove"})
        => /\ StepCall.s = s' /\ StepCall.panic = fault'
           /\ \A k \in 1..Len(StepCall.sift) :
                 StepCall.sift[k].tie
                    => StepCall.sift[k].j = 2 * StepCall.sift[k].i + 1]_vars

\* C16: a Remove call whose handle's index field equals Len - 1 only cuts the
\* last element off: it returns that element, the slice is the previous one
\* without its last element, no record's index field changes, and Swap is
\* not called.
C16_RemoveLastTruncates ==
    [][(Ready /\ th.indexFieldIndex >= 0 /\ op' = "Remove" /\ Len(s) >= 1
            /\ ConvertibleTo(arg') /\ ~IndexFieldPanics(arg')
            /\ IndexFieldOf(th, Cur, arg') = Len(s) - 1)
        => (/\ ~fault'
            /\ ret' = s[Len(s)]
            /\ s' = SubSeq(s, 1, Len(s) - 1)
            /\ rec' = rec
            /\ StepCall.s = s' /\ StepCall.swaps = << >>)]_vars

\* A Remove has returned the record it was given and left one record, whose
\* key is strictly better: the removed record was the second and last.
C16_Witness ==
    /\ Ready /\ th.indexFieldIndex >= 0 /\ op = "Remove" /\ ~fault
    /\ arg.type = "T" /\ ret = arg.r /\ ret # Nil /\ Len(s) = 1
    /\ KeyOf(s[1]) # KeyOf(ret) /\ NotWorse(KeyOf(s[1]), KeyOf(ret))

\* C17: Remove(u) removes and returns the record stored at the index that
\* u's index field holds; when u is not in the slice and that index is in
\* range, another record is removed and returned, without a panic.
C17_RemoveByIndex ==
    [][(Ready /\ th.indexFieldIndex >= 0 /\ op' = "Remove"
            /\ ConvertibleTo(arg') /\ ~IndexFieldPanics(arg')
            /\ InRange(Cur, IndexFieldOf(th, Cur, arg')))
        => (/\ ~fault'
            /\ ret' = s[IndexFieldOf(th, Cur, arg') + 1]
            /\ ~InSeq(s', ret')
            /\ Len(s') = Len(s) - 1
            /\ (arg'.type = "T" /\ ~InSeq(s, arg'.r)) => ret' # arg'.r)]_vars

\* A Remove of a record that was not in the slice has returned another
\* record, and two records remain.
C17_Witness ==
    /\ Ready /\ th.indexFieldIndex >= 0 /\ op = "Remove" /\ ~fault
    /\ arg.type = "T" /\ arg.r # Nil /\ ret # Nil /\ ret # arg.r
    /\ ~InSeq(s, arg.r) /\ Len(s) = 2

\* Every record in the slice of container c holds its own index in the index
\* field that container c uses.
ConsistentOn(c) ==
    \A k \in 1..Len(SliceOf(c)) :
        rec[SliceOf(c)[k]][ThOf(c).indexFieldIndex + 1] = k - 1

\* C18 (as claimed): two containers under different tag keys that tag the same
\* field as index field: after every Push, Pop or Remove call on either, every
\* record in each container's slice holds its index in that slice, also when a
\* record is in both slices at once.
C18_SharedIndexConsistent ==
    (BothReady /\ who \in 1..2 /\ op \in {"Push", "Pop", "Remove"})
        => ConsistentOn(1) /\ ConsistentOn(2)

\* How many times handle r occurs in slice q.
Count(q, r) == Cardinality({ k \in 1..Len(q) : q[k] = r })

\* The change a step makes to the number of handles r that the slice should
\* hold: one more when a Push of r returned, one fewer when a Pop or Remove on
\* a slice that was not empty returned r, none otherwise (New, and calls that
\* panicked).
Owed(r) ==
    IF op' = "Push" /\ ~fault' /\ arg'.type = "T" /\ arg'.r = r THEN 1
    ELSE IF op' \in {"Pop", "Remove"} /\ ~fault' /\ Len(s) > 0 /\ ret' = r THEN -1
    ELSE 0

\* C19 (as claimed): New and every Push, Pop and Remove call only permute the
\* slice, append the pushed handle or drop the returned handle, so that in
\* every state the slice holds, as a multiset, the initial handles plus those
\* pushed minus those returned, and Len is the initial count plus pushes minus
\* successful pops and removes.
C19_Conservation ==
    [][/\ \A r \in DOMAIN rec \cup {Nil} : Count(s', r) = Count(s, r) + Owed(r)
       /\ Len(s') = Len(s) + (IF op' = "Push" /\ ~fault' THEN 1 ELSE 0)
                           - (IF op' \in {"Pop", "Remove"} /\ ~fault' /\ Len(s) > 0
                              THEN 1 ELSE 0)]_vars

\* C20: no call (New, Len, Push, Pop, Remove) changes a record field other
\* than the index field of the container; the key field never changes; on a
\* container without an index field, and when New fails, no field of any
\* record changes; Len returns the length and changes nothing.
C20_FieldsFramed ==
    [][/\ \A r \in DOMAIN rec : \A f \in 1..Len(rec[r]) :
             rec'[r][f] # rec[r][f]
                => (t' # NoHeap /\ f = t'[1].indexFieldIndex + 1
                                /\ f # t'[1].keyFieldIndex + 1)
       /\ op' = "Len" => (~fault' /\ ret' = Len(s) /\ s' = s /\ rec' = rec)]_vars

\* Len has returned 2 on a container with an index field whose two records
\* hold the indexes 0 and 1 and different keys.
C20_Witness ==
    /\ Ready /\ th.indexFieldIndex >= 0 /\ op = "Len" /\ ret = 2 /\ Len(s) = 2
    /\ IndexOf(s[1]) = 0 /\ IndexOf(s[2]) = 1
    /\ KeyOf(s[1]) # KeyOf(s[2])
====
